---- MODULE Spec2Model ----
(***************************************************************************)
(* The CRUD backend of the author portfolio: the two tables of literary.db *)
(* (content, reviews) and the six Express routes of startServer that read  *)
(* and write them.  Every route runs one SQL statement to completion, so   *)
(* each route is one atomic action.                                        *)
(***************************************************************************)
EXTENDS Integers, Sequences, FiniteSets, TLC

VARIABLES
    env,          \* process.env.ADMIN_SECRET as a JS value
    content,      \* rows of table content
    reviews,      \* rows of table reviews
    contentSeq,   \* sqlite_sequence entry of content (AUTOINCREMENT)
    reviewsSeq,   \* sqlite_sequence entry of reviews (AUTOINCREMENT)
    now,          \* the store's clock, CURRENT_TIMESTAMP in seconds
    req,          \* the request handled last
    res,          \* the response sent last
    liveWorks,    \* history: ids answered by a 200 create, not yet by a 200 delete
    liveReviews,  \* history: the same for reviews
    assigned,     \* history: every id a create has answered, per table
    mounted,      \* App has run its mount effect
    contents,     \* App state contents: the Works displayed
    clientReviews,   \* App state reviews: the Reviews displayed
    isAdmin,      \* App state isAdmin
    clientAdminKey,  \* App state adminKey: the text of the admin key field
    showAdminLogin,  \* App state showAdminLogin
    net,          \* fetch calls in flight: requests sent, responses not yet read
    sent,         \* fetch calls made so far
    alert         \* the alert() box on the screen, if any

server == <<env, content, reviews, contentSeq, reviewsSeq, now, req, res,
            liveWorks, liveReviews, assigned>>

client == <<mounted, contents, clientReviews, isAdmin, clientAdminKey,
            showAdminLogin, net, sent, alert>>

vars == <<server, client>>

store == <<content, reviews, contentSeq, reviewsSeq>>

----------------------------------------------------------------------------
(* Bounds *)

MaxInserts == 2    \* rows inserted over one run, both tables together
MaxFetches == 6    \* fetch calls App makes over one run
MaxInFlight == 2   \* calls in flight when the user starts another

----------------------------------------------------------------------------
(* JavaScript values as they arrive in req.body / req.headers *)

Undefined == [t |-> "undefined"]
Null == [t |-> "null"]
Str(s) == [t |-> "string", s |-> s]
Num(n) == [t |-> "number", n |-> n]

\* ToBoolean, as used by ! and ||
Truthy(v) ==
    CASE v.t = "undefined" -> FALSE
      [] v.t = "null" -> FALSE
      [] v.t = "string" -> v.s # ""
      [] v.t = "number" -> v.n # 0

\* a || b
Or(a, b) == IF Truthy(a) THEN a ELSE b

DefaultSecret == Str("jaxelricweb")

\* const secret = process.env.ADMIN_SECRET || "jaxelricweb"
Secret == Or(env, DefaultSecret)

\* adminKey && adminKey !== secret: a key that is absent passes
AuthFailsWhenPresent(adminKey) == Truthy(adminKey) /\ adminKey # Secret

\* adminKey !== secret
AuthFails(adminKey) == adminKey # Secret

\* !title || !body: the type is not looked at
ContentFieldsMissingNoType(title, body, type) == ~Truthy(title) \/ ~Truthy(body)

\* !title || !body || !type
ContentFieldsMissing(title, body, type) ==
    ~Truthy(title) \/ ~Truthy(body) \/ ~Truthy(type)

\* name === undefined || comment === undefined: an empty string passes
ReviewFieldsAbsent(name, comment) == name = Undefined \/ comment = Undefined

\* !name: the comment is not looked at
ReviewFieldsNameOnly(name, comment) == ~Truthy(name)

\* !name || !comment
ReviewFieldsMissing(name, comment) == ~Truthy(name) \/ ~Truthy(comment)

DefaultRating == Num(5)

\* rating, with no default
RatingAsSupplied(rating) == rating

\* rating || 5
RatingOrDefault(rating) == Or(rating, DefaultRating)

----------------------------------------------------------------------------
(* The :id path parameter is text; "WHERE id = ?" compares it with an      *)
(* INTEGER column, so SQLite applies numeric affinity to the text first.   *)

Digits == <<"0", "1", "2", "3", "4", "5", "6", "7", "8", "9">>

IsDigit(c) == \E i \in 1..10 : Digits[i] = c

DigitVal(c) == (CHOOSE i \in 1..10 : Digits[i] = c) - 1

AllDigits(s) == \A i \in 1..Len(s) : IsDigit(s[i])

AllZeros(s) == \A i \in 1..Len(s) : s[i] = "0"

RECURSIVE DecimalValue(_)
DecimalValue(s) ==
    IF s = <<>> THEN 0
    ELSE 10 * DecimalValue(SubSeq(s, 1, Len(s) - 1)) + DigitVal(s[Len(s)])

\* position of the decimal point, 0 when there is none
DotAt(s) == IF \E i \in 1..Len(s) : s[i] = "."
            THEN CHOOSE i \in 1..Len(s) : s[i] = "." /\ \A j \in 1..(i-1) : s[j] # "."
            ELSE 0

\* the integer a text compares equal to under numeric affinity; text that is
\* not a numeric literal, or a literal with a fraction, equals no rowid
NumericAffinity(s) ==
    LET d == DotAt(s)
        whole == IF d = 0 THEN s ELSE SubSeq(s, 1, d - 1)
        frac == IF d = 0 THEN <<>> ELSE SubSeq(s, d + 1, Len(s))
    IN  IF whole # <<>> /\ AllDigits(whole) /\ AllDigits(frac) /\ AllZeros(frac)
        THEN [isInt |-> TRUE, n |-> DecimalValue(whole)]
        ELSE [isInt |-> FALSE]

\* WHERE id >= ?
MatchingFrom(table, id) ==
    LET a == NumericAffinity(id)
    IN  IF a.isInt THEN {r \in table : r.id >= a.n} ELSE {}

\* the rows "WHERE id = ?" selects
Matching(table, id) ==
    LET a == NumericAffinity(id)
    IN  IF a.isInt THEN {r \in table : r.id = a.n} ELSE {}

----------------------------------------------------------------------------
(* SELECT * ... ORDER BY created_at DESC: every row once, later timestamps *)
(* first; SQL leaves the order of rows with equal timestamps open.         *)

\* ORDER BY created_at ASC
OrderByCreatedAtAsc(table) ==
    {s \in [1..Cardinality(table) -> table] :
        /\ \A i, j \in 1..Cardinality(table) : i # j => s[i] # s[j]
        /\ \A i, j \in 1..Cardinality(table) : i < j => s[i].created_at <= s[j].created_at}

OrderByCreatedAtDesc(table) ==
    {s \in [1..Cardinality(table) -> table] :
        /\ \A i, j \in 1..Cardinality(table) : i # j => s[i] # s[j]
        /\ \A i, j \in 1..Cardinality(table) : i < j => s[i].created_at >= s[j].created_at}

----------------------------------------------------------------------------
(* Request inputs *)

Titles == {Undefined, Str(""), Str("Dawn")}
Bodies == {Undefined, Str("verse")}
Types == {Undefined, Str("poetry")}
PdfDatas == {Str("data:application/pdf;base64,AA")}
AdminKeys == {Undefined, Str("jaxelricweb"), Str("s3cret")}
EnvSecrets == {Undefined, Str("s3cret")}
Names == {Undefined, Str(""), Str("Ann")}
Comments == {Undefined, Str("Lovely.")}
Ratings == {Undefined, Num(0), Num(-1)}
IdParams == {<<"1">>, <<"2">>, <<"2", ".", "0">>, <<"1", "a">>, <<"9", "9", "9">>}

NoRequest == [method |-> "NONE", path |-> ""]
NoResponse == [status |-> 0]
NoAlert == ""

----------------------------------------------------------------------------

Init ==
    /\ env \in EnvSecrets
    /\ content = {}
    /\ reviews = {}
    /\ contentSeq = 0
    /\ reviewsSeq = 0
    /\ now = 0
    /\ req = NoRequest
    /\ res = NoResponse
    /\ liveWorks = {}
    /\ liveReviews = {}
    /\ assigned = [works |-> {}, reviews |-> {}]
    /\ mounted = FALSE
    /\ contents = <<>>
    /\ clientReviews = <<>>
    /\ isAdmin = FALSE
    /\ clientAdminKey = Str("")
    /\ showAdminLogin = FALSE
    /\ net = {}
    /\ sent = 0
    /\ alert = NoAlert

\* the largest rowid in a table, 0 when it is empty
MaxRowid(table) ==
    IF table = {} THEN 0
    ELSE CHOOSE n \in {r.id : r \in table} : \A r \in table : r.id <= n

\* INTEGER PRIMARY KEY without AUTOINCREMENT: one more than the largest rowid
\* now in the table
RowidPlusOne(table, seq) == MaxRowid(table) + 1

\* INTEGER PRIMARY KEY AUTOINCREMENT: one more than the largest rowid the table
\* has ever held, which sqlite_sequence keeps
AutoIncrement(table, seq) ==
    (IF seq >= MaxRowid(table) THEN seq ELSE MaxRowid(table)) + 1

\* rows inserted so far
Inserted == contentSeq + reviewsSeq

\* CURRENT_TIMESTAMP as an insert reads it: the second of the last insert or,
\* when the clock has moved on since, a later one (only the order of the
\* timestamps shows in a response, so one second later stands for any later)
CurrentTimestamps == {now, now + 1}

\* app.get("/api/content")
GetContent ==
    /\ req' = [method |-> "GET", path |-> "/api/content"]
    /\ \E rows \in OrderByCreatedAtDesc(content) :
          res' = [status |-> 200, body |-> [rows |-> rows]]
    /\ UNCHANGED <<env, assigned, store, now, liveWorks, liveReviews>>

\* the request POST /api/content carries
PostContentReq(title, body, type, pdfData, adminKey) ==
    [method |-> "POST", path |-> "/api/content",
     body |-> [title |-> title, body |-> body, type |-> type,
               pdfData |-> pdfData, adminKey |-> adminKey]]

\* app.post("/api/content")
PostContent(title, body, type, pdfData, adminKey) ==
    /\ req' = PostContentReq(title, body, type, pdfData, adminKey)
    /\ IF AuthFails(adminKey)
       THEN /\ res' = [status |-> 401, body |-> [error |-> "Unauthorized"]]
            /\ UNCHANGED <<store, now, liveWorks, assigned>>
       ELSE IF ContentFieldsMissing(title, body, type)
       THEN /\ res' = [status |-> 400, body |-> [error |-> "Missing fields"]]
            /\ UNCHANGED <<store, now, liveWorks, assigned>>
       ELSE /\ Inserted < MaxInserts
            /\ \E ts \in CurrentTimestamps :
                 /\ content' = content \cup
                      {[id |-> AutoIncrement(content, contentSeq),
                        title |-> title, body |-> body,
                        type |-> type, pdf_data |-> Or(pdfData, Null),
                        created_at |-> ts]}
                 /\ now' = ts
            /\ contentSeq' = AutoIncrement(content, contentSeq)
            /\ res' = [status |-> 200,
                       body |-> [id |-> AutoIncrement(content, contentSeq)]]
            /\ liveWorks' = liveWorks \cup {AutoIncrement(content, contentSeq)}
            /\ assigned' = [assigned EXCEPT
                              !.works = @ \cup {AutoIncrement(content, contentSeq)}]
            /\ UNCHANGED <<reviews, reviewsSeq>>
    /\ UNCHANGED <<env, liveReviews>>

\* the request DELETE /api/content/:id and DELETE /api/reviews/:id carry
DeleteReq(path, id, xAdminKey) ==
    [method |-> "DELETE", path |-> path, id |-> id, xAdminKey |-> xAdminKey]

\* the delete of a Work without the admin check, as the delete of a Review is
DeleteContentNoAuth(id, xAdminKey) ==
    /\ req' = DeleteReq("/api/content/:id", id, xAdminKey)
    /\ content' = content \ Matching(content, id)
    /\ IF Cardinality(Matching(content, id)) = 0
       THEN /\ res' = [status |-> 404, body |-> [error |-> "Content not found"]]
            /\ UNCHANGED liveWorks
       ELSE /\ res' = [status |-> 200, body |-> [success |-> TRUE]]
            /\ liveWorks' = liveWorks \ {NumericAffinity(id).n}
    /\ UNCHANGED <<env, assigned, reviews, contentSeq, reviewsSeq, now, liveReviews>>

\* app.delete("/api/content/:id")
DeleteContent(id, xAdminKey) ==
    /\ req' = DeleteReq("/api/content/:id", id, xAdminKey)
    /\ IF AuthFails(xAdminKey)
       THEN /\ res' = [status |-> 401, body |-> [error |-> "Unauthorized"]]
            /\ UNCHANGED <<content, liveWorks>>
       ELSE /\ content' = content \ Matching(content, id)
            /\ IF Cardinality(Matching(content, id)) = 0
               THEN /\ res' = [status |-> 404, body |-> [error |-> "Content not found"]]
                    /\ UNCHANGED liveWorks
               ELSE /\ res' = [status |-> 200, body |-> [success |-> TRUE]]
                    /\ liveWorks' = liveWorks \ {NumericAffinity(id).n}
    /\ UNCHANGED <<env, assigned, reviews, contentSeq, reviewsSeq, now, liveReviews>>

\* the delete of a Review behind the admin check of the delete of a Work
DeleteReviewWithKey(id, xAdminKey) ==
    /\ req' = DeleteReq("/api/reviews/:id", id, xAdminKey)
    /\ IF AuthFails(xAdminKey)
       THEN /\ res' = [status |-> 401, body |-> [error |-> "Unauthorized"]]
            /\ UNCHANGED <<reviews, liveReviews>>
       ELSE /\ reviews' = reviews \ Matching(reviews, id)
            /\ IF Cardinality(Matching(reviews, id)) = 0
               THEN /\ res' = [status |-> 404, body |-> [error |-> "Review not found"]]
                    /\ UNCHANGED liveReviews
               ELSE /\ res' = [status |-> 200, body |-> [success |-> TRUE]]
                    /\ liveReviews' = liveReviews \ {NumericAffinity(id).n}
    /\ UNCHANGED <<env, assigned, content, contentSeq, reviewsSeq, now, liveWorks>>

\* app.delete("/api/reviews/:id")
DeleteReview(id, xAdminKey) ==
    /\ req' = DeleteReq("/api/reviews/:id", id, xAdminKey)
    /\ reviews' = reviews \ Matching(reviews, id)
    /\ IF Cardinality(Matching(reviews, id)) = 0
       THEN /\ res' = [status |-> 404, body |-> [error |-> "Review not found"]]
            /\ UNCHANGED liveReviews
       ELSE /\ res' = [status |-> 200, body |-> [success |-> TRUE]]
            /\ liveReviews' = liveReviews \ {NumericAffinity(id).n}
    /\ UNCHANGED <<env, assigned, content, contentSeq, reviewsSeq, now, liveWorks>>

\* the list of reviews reading the content table
GetReviewsFromContent ==
    /\ req' = [method |-> "GET", path |-> "/api/reviews"]
    /\ \E rows \in OrderByCreatedAtDesc(content) :
          res' = [status |-> 200, body |-> [rows |-> rows]]
    /\ UNCHANGED <<env, assigned, store, now, liveWorks, liveReviews>>

\* app.get("/api/reviews")
GetReviews ==
    /\ req' = [method |-> "GET", path |-> "/api/reviews"]
    /\ \E rows \in OrderByCreatedAtDesc(reviews) :
          res' = [status |-> 200, body |-> [rows |-> rows]]
    /\ UNCHANGED <<env, assigned, store, now, liveWorks, liveReviews>>

\* the request POST /api/reviews carries
PostReviewReq(name, comment, rating) ==
    [method |-> "POST", path |-> "/api/reviews",
     body |-> [name |-> name, comment |-> comment, rating |-> rating]]

\* app.post("/api/reviews")
PostReview(name, comment, rating) ==
    /\ req' = PostReviewReq(name, comment, rating)
    /\ IF ReviewFieldsMissing(name, comment)
       THEN /\ res' = [status |-> 400, body |-> [error |-> "Missing fields"]]
            /\ UNCHANGED <<reviews, reviewsSeq, now, liveReviews, assigned>>
       ELSE /\ Inserted < MaxInserts
            /\ \E ts \in CurrentTimestamps :
                 /\ reviews' = reviews \cup
                      {[id |-> AutoIncrement(reviews, reviewsSeq),
                        name |-> name, comment |-> comment,
                        rating |-> RatingOrDefault(rating), created_at |-> ts]}
                 /\ now' = ts
            /\ reviewsSeq' = AutoIncrement(reviews, reviewsSeq)
            /\ res' = [status |-> 200,
                       body |-> [id |-> AutoIncrement(reviews, reviewsSeq)]]
            /\ liveReviews' = liveReviews \cup {AutoIncrement(reviews, reviewsSeq)}
            /\ assigned' = [assigned EXCEPT
                              !.reviews = @ \cup {AutoIncrement(reviews, reviewsSeq)}]
    /\ UNCHANGED <<env, content, contentSeq, liveWorks>>

AnyPostContent ==
    \E title \in Titles, body \in Bodies, type \in Types,
       pdfData \in PdfDatas, adminKey \in AdminKeys :
        PostContent(title, body, type, pdfData, adminKey)

AnyDeleteContent ==
    \E id \in IdParams, xAdminKey \in AdminKeys : DeleteContent(id, xAdminKey)

AnyDeleteReview ==
    \E id \in IdParams, xAdminKey \in {Undefined, Str("jaxelricweb")} : DeleteReview(id, xAdminKey)

AnyPostReview ==
    \E name \in Names, comment \in Comments, rating \in Ratings :
        PostReview(name, comment, rating)

\* the routes, called by clients other than App
Next ==
    \/ GetContent /\ UNCHANGED client
    \/ AnyPostContent /\ UNCHANGED client
    \/ AnyDeleteContent /\ UNCHANGED client
    \/ AnyDeleteReview /\ UNCHANGED client
    \/ GetReviews /\ UNCHANGED client
    \/ AnyPostReview /\ UNCHANGED client

Spec == Init /\ [][Next]_vars

----------------------------------------------------------------------------
(* What the claims speak of *)

\* the secret the process is configured with: ADMIN_SECRET, or the literal
\* fallback when the variable is not set
ConfiguredSecret == IF env = Undefined THEN Str("jaxelricweb") ELSE env

Unauthorized401 == [status |-> 401, body |-> [error |-> "Unauthorized"]]
MissingFields400 == [status |-> 400, body |-> [error |-> "Missing fields"]]
ContentNotFound404 == [status |-> 404, body |-> [error |-> "Content not found"]]
Success200 == [status |-> 200, body |-> [success |-> TRUE]]

IsPostContent(r) == r.method = "POST" /\ r.path = "/api/content"
IsDeleteContent(r) == r.method = "DELETE" /\ r.path = "/api/content/:id"
IsGetContent(r) == r.method = "GET" /\ r.path = "/api/content"
IsPostReview(r) == r.method = "POST" /\ r.path = "/api/reviews"
IsDeleteReview(r) == r.method = "DELETE" /\ r.path = "/api/reviews/:id"
IsGetReviews(r) == r.method = "GET" /\ r.path = "/api/reviews"

\* the admin secret a request to create or delete a Work supplies
SuppliedKey(r) == IF r.method = "POST" THEN r.body.adminKey ELSE r.xAdminKey

\* C1: a create or delete of a Work whose supplied secret (absent included)
\* differs from the configured one is answered 401 {error:"Unauthorized"} and
\* leaves both tables as they were, whatever else the request carries.
C1_UnauthorizedLeavesStore ==
    [][((IsPostContent(req') \/ IsDeleteContent(req'))
            /\ SuppliedKey(req') # ConfiguredSecret)
        => (res' = Unauthorized401 /\ content' = content /\ reviews' = reviews)]_vars

\* a delete without the header, naming a row that exists, was answered 401
C1_Witness ==
    /\ IsDeleteContent(req)
    /\ req.xAdminKey = Undefined
    /\ Matching(content, req.id) # {}
    /\ res = Unauthorized401

\* C2 as stated: every create of a Work that lacks title, body or type is
\* answered 400 and leaves the row count of content as it was.
C2_MissingFieldAlways400 ==
    [][(IsPostContent(req')
            /\ (\/ req'.body.title = Undefined
                \/ req'.body.body = Undefined
                \/ req'.body.type = Undefined))
        => (res'.status = 400 /\ Cardinality(content') = Cardinality(content))]_vars

\* C2 amended: a create of a Work that lacks title, body or type is answered
\* 400 {error:"Missing fields"} when it carries the configured secret and 401
\* when it does not; in both cases the row count of content stays as it was.
C2_MissingFieldRejected ==
    [][(IsPostContent(req')
            /\ (\/ req'.body.title = Undefined
                \/ req'.body.body = Undefined
                \/ req'.body.type = Undefined))
        => (/\ res' = IF req'.body.adminKey = ConfiguredSecret
                      THEN MissingFields400 ELSE Unauthorized401
            /\ Cardinality(content') = Cardinality(content))]_vars

\* a create with the right secret, a title and a body but no type was answered
\* 400 while the table holds a row
C2_Witness ==
    /\ IsPostContent(req)
    /\ req.body.adminKey = ConfiguredSecret
    /\ req.body.title = Str("Dawn")
    /\ req.body.body = Str("verse")
    /\ req.body.type = Undefined
    /\ res = MissingFields400
    /\ content # {}

\* C3: a delete of a Work carrying the configured secret is answered 404
\* {error:"Content not found"} with both tables untouched when its id matches no
\* row of content, and 200 {success:true} with exactly the matching row removed
\* (and reviews untouched) when it matches one.
C3_DeleteWorkByIdOutcome ==
    [][(IsDeleteContent(req') /\ req'.xAdminKey = ConfiguredSecret)
        => IF Matching(content, req'.id) = {}
           THEN res' = ContentNotFound404 /\ content' = content /\ reviews' = reviews
           ELSE /\ res' = Success200
                /\ reviews' = reviews
                /\ \E r \in Matching(content, req'.id) : content' = content \ {r}]_vars

\* the second of two Works was deleted with 200 and the first one is still there
C3_Witness ==
    /\ IsDeleteContent(req)
    /\ res = Success200
    /\ contentSeq = 2
    /\ \E r \in content : r.id = 1 /\ content = {r}

\* C4: a delete of a Review is never answered 401, and when its id matches a row
\* of reviews it is answered 200 {success:true} and removes exactly that row,
\* with or without an x-admin-key header.
C4_DeleteReviewNeedsNoSecret ==
    [][IsDeleteReview(req')
        => /\ res'.status # 401
           /\ Matching(reviews, req'.id) # {}
                => /\ res' = Success200
                   /\ content' = content
                   /\ \E r \in Matching(reviews, req'.id) : reviews' = reviews \ {r}]_vars

\* a delete of a Review without the header was answered 200
C4_Witness ==
    /\ IsDeleteReview(req)
    /\ req.xAdminKey = Undefined
    /\ res = Success200
    /\ reviewsSeq > Cardinality(reviews)

\* the rows a list response shows
Shown(rows) == {rows[i] : i \in 1..Len(rows)}

\* C5: a review created without a rating is stored with rating 5; the rating of
\* a stored review never changes and a list of reviews shows exactly the stored
\* rows, so every later list shows that row with rating 5.
C5_OmittedRatingIsFive ==
    [][/\ (IsPostReview(req') /\ req'.body.rating = Undefined /\ res'.status = 200)
            => \E r \in reviews' : r.id = res'.body.id /\ r.rating = Num(5)
       /\ \A r \in reviews, q \in reviews' : r.id = q.id => q.rating = r.rating
       /\ IsGetReviews(req') => Shown(res'.body.rows) = reviews']_vars

\* a review was created without a rating and the table holds it
C5_Witness ==
    /\ IsPostReview(req)
    /\ req.body.rating = Undefined
    /\ res.status = 200
    /\ \E r \in reviews : r.id = res.body.id

\* C6 as stated: a successful create of a Review that supplies an integer rating
\* stores the row with exactly that rating, 0 and negative values included.
C6_RatingStoredAsSupplied ==
    (IsPostReview(req) /\ req.body.rating.t = "number" /\ res.status = 200)
        => \E r \in reviews : r.id = res.body.id /\ r.rating = req.body.rating

\* later timestamps first
NewestFirst(rows) ==
    \A i, j \in 1..Len(rows) : i < j => rows[i].created_at >= rows[j].created_at

\* C7: both lists come sorted by created_at descending and hold every row of
\* their table; a Work just created carries a created_at no smaller than that of
\* any other row, and Works created later never carry an earlier created_at.
C7_ListsNewestFirst ==
    /\ IsGetContent(req)
          => NewestFirst(res.body.rows) /\ Shown(res.body.rows) = content
    /\ IsGetReviews(req)
          => NewestFirst(res.body.rows) /\ Shown(res.body.rows) = reviews
    /\ (IsPostContent(req) /\ res.status = 200)
          => \E n \in content :
                /\ n.id = res.body.id
                /\ \A r \in content : n.created_at >= r.created_at
    /\ \A r, q \in content : r.id < q.id => r.created_at <= q.created_at

\* a list of two Works created in different seconds, the later one first
C7_Witness ==
    /\ IsGetContent(req)
    /\ Len(res.body.rows) = 2
    /\ res.body.rows[1].created_at > res.body.rows[2].created_at
    /\ res.body.rows[1].id > res.body.rows[2].id

\* the ids a list response shows
ShownIds(rows) == {rows[i].id : i \in 1..Len(rows)}

\* C8: a list shows exactly the ids that a create has answered with 200 {id} and
\* no delete has answered with 200 since, each once, for Works and for Reviews.
C8_ListsShowLiveRows ==
    /\ IsGetContent(req)
          => /\ ShownIds(res.body.rows) = liveWorks
             /\ Len(res.body.rows) = Cardinality(liveWorks)
    /\ IsGetReviews(req)
          => /\ ShownIds(res.body.rows) = liveReviews
             /\ Len(res.body.rows) = Cardinality(liveReviews)

\* two Works were created, the first was deleted, and a list shows the second
C8_Witness ==
    /\ IsGetContent(req)
    /\ contentSeq = 2
    /\ liveWorks = {2}
    /\ ShownIds(res.body.rows) = {2}

\* C9: a step changes the content table only by adding one row with a fresh id
\* in a create of a Work carrying the configured secret, or by removing one row
\* in a delete of a Work carrying the configured secret; rows that stay keep all
\* their fields, and lists and review requests leave the table as it was.
C9_WorksOnlyCreatedOrDeleted ==
    [][\/ content' = content
       \/ /\ IsPostContent(req')
          /\ req'.body.adminKey = ConfiguredSecret
          /\ content \subseteq content'
          /\ Cardinality(content' \ content) = 1
          /\ \A n \in content' \ content : \A r \in content : r.id # n.id
       \/ /\ IsDeleteContent(req')
          /\ req'.xAdminKey = ConfiguredSecret
          /\ content' \subseteq content
          /\ Cardinality(content \ content') = 1]_vars

\* a second Work was created next to the first
C9_Witness ==
    /\ IsPostContent(req)
    /\ res.status = 200
    /\ Cardinality(content) = 2

\* a stored text that is a string of at least one character
NonEmptyText(v) == v.t = "string" /\ v.s # ""

C11_PostReviewOutcome ==
    [][IsPostReview(req')
        => IF \/ req'.body.name \in {Undefined, Str("")}
              \/ req'.body.comment \in {Undefined, Str("")}
           THEN res' = MissingFields400 /\ reviews' = reviews
           ELSE /\ res'.status = 200
                /\ \E n \in reviews' :
                      /\ n \notin reviews
                      /\ reviews' = reviews \cup {n}
                      /\ res'.body = [id |-> n.id]]_vars

\* a second Review was created and answered with its id
C11_Witness ==
    /\ IsPostReview(req)
    /\ res.status = 200
    /\ Cardinality(reviews) = 2
    /\ \E n \in reviews : n.id = res.body.id /\ n.id = 2

\* C14: within each table the id a create answers is greater than every id the
\* table has assigned before, ids of deleted rows included, and no two rows of a
\* table share an id; so a row is never given the id of an earlier row.
C14_IdsNeverReused ==
    [][/\ (IsPostContent(req') /\ res'.status = 200)
            => /\ \A i \in assigned.works : res'.body.id > i
               /\ \E n \in content' : n.id = res'.body.id /\ n \notin content
       /\ (IsPostReview(req') /\ res'.status = 200)
            => /\ \A i \in assigned.reviews : res'.body.id > i
               /\ \E n \in reviews' : n.id = res'.body.id /\ n \notin reviews
       /\ \A r, q \in content' : r.id = q.id => r = q
       /\ \A r, q \in reviews' : r.id = q.id => r = q]_vars

\* the first Work was deleted and the Work created after it got id 2
C14_Witness ==
    /\ IsPostContent(req)
    /\ res.status = 200
    /\ res.body.id = 2
    /\ assigned.works = {1, 2}
    /\ \A r \in content : r.id = 2

----------------------------------------------------------------------------
(* Storage faults.  No route wraps its statement in try/catch and startServer *)
(* registers no error middleware, so an exception thrown by a statement goes *)
(* to the default error handler of express, which answers 500 with an HTML   *)
(* page.  A statement that throws changes no row.                            *)

InternalServerError500 ==
    [status |-> 500, body |-> [html |-> "<pre>Internal Server Error</pre>"]]

\* every request the six routes are sent
Requests ==
    {[method |-> "GET", path |-> "/api/content"],
     [method |-> "GET", path |-> "/api/reviews"]}
    \cup {PostContentReq(title, body, type, pdfData, adminKey) :
            title \in Titles, body \in Bodies, type \in Types,
            pdfData \in PdfDatas, adminKey \in AdminKeys}
    \cup {DeleteReq("/api/content/:id", id, xAdminKey) :
            id \in IdParams, xAdminKey \in AdminKeys}
    \cup {DeleteReq("/api/reviews/:id", id, xAdminKey) :
            id \in IdParams, xAdminKey \in {Undefined}}
    \cup {PostReviewReq(name, comment, rating) :
            name \in Names, comment \in Comments, rating \in Ratings}

\* the handler of r gets as far as db.prepare(...).run / .all
ReachesStatement(r) ==
    IF r.method = "GET" THEN TRUE
    ELSE IF r.method = "DELETE"
    THEN r.path = "/api/reviews/:id" \/ ~AuthFails(r.xAdminKey)
    ELSE IF r.path = "/api/content"
    THEN /\ ~AuthFails(r.body.adminKey)
         /\ ~ContentFieldsMissing(r.body.title, r.body.body, r.body.type)
    ELSE ~ReviewFieldsMissing(r.body.name, r.body.comment)

\* the statement of the route throws (SQLITE_IOERR, SQLITE_FULL, ...)
StatementThrows(r) ==
    /\ ReachesStatement(r)
    /\ req' = r
    /\ res' = InternalServerError500
    /\ UNCHANGED <<env, store, now, liveWorks, liveReviews, assigned>>

AnyStatementThrows == \E r \in Requests : StatementThrows(r)

NextWithFaults == Next \/ (AnyStatementThrows /\ UNCHANGED client)

SpecWithFaults == Init /\ [][NextWithFaults]_vars

\* C12 as stated: every request is answered, and every answer that reports an
\* error carries an HTTP status and a JSON body with an error message, a storage
\* fault raised by the statement included.
C12_ErrorsAnsweredInJson ==
    req # NoRequest
        => /\ res.status \in {200, 400, 401, 404, 500}
           /\ res.status >= 400 => DOMAIN res.body = {"error"}

----------------------------------------------------------------------------
(* The page App.  Every fetch is a request in flight that the server takes   *)
(* up at some later step, and a response in flight that App reads at some    *)
(* later step; the part of a handler after its await runs when the response  *)
(* is read.  Calls in flight are taken up and read in any order.             *)

RECURSIVE DecimalString(_)
\* `${id}`
DecimalString(n) ==
    IF n < 10 THEN <<Digits[n + 1]>>
    ELSE DecimalString(n \div 10) \o <<Digits[(n % 10) + 1]>>

\* a fetch call, numbered in the order the calls are made
Call(n, op, r) == [n |-> n, dir |-> "request", op |-> op, req |-> r, res |-> NoResponse]

\* the response to a call
Answer(m, r) == [n |-> m.n, dir |-> "response", op |-> m.op, req |-> m.req, res |-> r]

\* res.ok
Ok(r) == r.status >= 200 /\ r.status <= 299

\* await res.json() yields a value
ParsesAsJson(r) == "html" \notin DOMAIN r.body

\* alert() blocks the page: App runs no handler until the box is dismissed
Idle == mounted /\ alert = NoAlert

\* the user dismisses the alert box
Dismiss ==
    /\ alert # NoAlert
    /\ alert' = NoAlert
    /\ UNCHANGED <<server, mounted, contents, clientReviews, isAdmin, clientAdminKey,
                   showAdminLogin, net, sent>>

\* App has room for a call and for the refetch that follows its success, with
\* fewer than MaxInFlight calls in flight; a row it would create is within the
\* rows of one run
RoomForCall == Idle /\ sent + 2 <= MaxFetches /\ Cardinality(net) < MaxInFlight

RoomForInsert ==
    Inserted + Cardinality({m \in net : m.dir = "request" /\ m.req.method = "POST"})
        < MaxInserts

\* useEffect(() => { fetchContent(); fetchReviews(); ... }, [])
Mount ==
    /\ ~mounted
    /\ alert = NoAlert
    /\ mounted' = TRUE
    /\ net' = net \cup {Call(sent + 1, "fetchContent", [method |-> "GET", path |-> "/api/content"]),
                        Call(sent + 2, "fetchReviews", [method |-> "GET", path |-> "/api/reviews"])}
    /\ sent' = sent + 2
    /\ alert' = NoAlert
    /\ UNCHANGED <<server, contents, clientReviews, isAdmin, clientAdminKey, showAdminLogin>>

\* onClick={() => setShowAdminLogin(!showAdminLogin)}
ToggleAdminLogin ==
    /\ Idle
    /\ showAdminLogin' = ~showAdminLogin
    /\ alert' = NoAlert
    /\ UNCHANGED <<server, mounted, contents, clientReviews, isAdmin, clientAdminKey, net, sent>>

\* the keys typed into the admin key field
TypedKeys == {Str(""), Str("jaxelricweb"), Str("s3cret")}

\* onChange={(e) => setAdminKey(e.target.value)}, in the form shown while
\* showAdminLogin
SetAdminKey(k) ==
    /\ Idle
    /\ showAdminLogin
    /\ k # clientAdminKey
    /\ clientAdminKey' = k
    /\ alert' = NoAlert
    /\ UNCHANGED <<server, mounted, contents, clientReviews, isAdmin, showAdminLogin, net, sent>>

\* adminKey !== '': any key that was typed unlocks
handleAdminLoginAnyKey ==
    /\ Idle
    /\ showAdminLogin
    /\ IF clientAdminKey # Str("")
       THEN isAdmin' = TRUE /\ showAdminLogin' = FALSE /\ alert' = NoAlert
       ELSE alert' = "Invalid admin key" /\ UNCHANGED <<isAdmin, showAdminLogin>>
    /\ UNCHANGED <<server, mounted, contents, clientReviews, clientAdminKey, net, sent>>

\* handleAdminLogin
handleAdminLogin ==
    /\ Idle
    /\ showAdminLogin
    /\ IF clientAdminKey = Str("jaxelricweb")
       THEN isAdmin' = TRUE /\ showAdminLogin' = FALSE /\ alert' = NoAlert
       ELSE alert' = "Invalid admin key" /\ UNCHANGED <<isAdmin, showAdminLogin>>
    /\ UNCHANGED <<server, mounted, contents, clientReviews, clientAdminKey, net, sent>>

\* a handler makes its call and awaits the response
Await(op, r) ==
    /\ net' = net \cup {Call(sent + 1, op, r)}
    /\ sent' = sent + 1
    /\ alert' = NoAlert
    /\ UNCHANGED <<server, mounted, contents, clientReviews, isAdmin, clientAdminKey, showAdminLogin>>

\* handleUpload up to its await; the form is shown while isAdmin and its title
\* and body are required
handleUpload ==
    /\ RoomForCall
    /\ RoomForInsert
    /\ isAdmin
    /\ Await("handleUpload",
             PostContentReq(Str("Dawn"), Str("verse"), Str("poetry"), Null, clientAdminKey))

\* handleDelete up to its await, confirmed; the button is shown while isAdmin
\* on every Work displayed
handleDelete(id) ==
    /\ RoomForCall
    /\ isAdmin
    /\ \E i \in 1..Len(contents) : contents[i].id = id
    /\ Await("handleDelete",
             DeleteReq("/api/content/:id", DecimalString(id), clientAdminKey))

\* handleDeleteReview up to its await, confirmed; the button is shown on every
\* Review displayed
handleDeleteReview(id) ==
    /\ RoomForCall
    /\ \E i \in 1..Len(clientReviews) : clientReviews[i].id = id
    /\ Await("handleDeleteReview",
             DeleteReq("/api/reviews/:id", DecimalString(id), Undefined))

\* handleReviewSubmit up to its await; name and comment are required
handleReviewSubmit ==
    /\ RoomForCall
    /\ RoomForInsert
    /\ Await("handleReviewSubmit",
             PostReviewReq(Str("Ann"), Str("Lovely."), Num(5)))

\* the route a request is dispatched to
Route(r) ==
    \/ r.method = "GET" /\ r.path = "/api/content" /\ GetContent
    \/ r.method = "POST" /\ r.path = "/api/content"
          /\ PostContent(r.body.title, r.body.body, r.body.type, r.body.pdfData,
                         r.body.adminKey)
    \/ r.method = "DELETE" /\ r.path = "/api/content/:id"
          /\ DeleteContent(r.id, r.xAdminKey)
    \/ r.method = "DELETE" /\ r.path = "/api/reviews/:id"
          /\ DeleteReview(r.id, r.xAdminKey)
    \/ r.method = "GET" /\ r.path = "/api/reviews" /\ GetReviews
    \/ r.method = "POST" /\ r.path = "/api/reviews"
          /\ PostReview(r.body.name, r.body.comment, r.body.rating)

\* the server takes up a call in flight and answers it
Serve(m) ==
    /\ m.dir = "request"
    /\ Route(m.req)
    /\ net' = (net \ {m}) \cup {Answer(m, res')}
    /\ UNCHANGED <<mounted, contents, clientReviews, isAdmin, clientAdminKey,
                   showAdminLogin, sent, alert>>

\* the server takes up a call in flight and its statement throws
ServeThrows(m) ==
    /\ m.dir = "request"
    /\ StatementThrows(m.req)
    /\ net' = (net \ {m}) \cup {Answer(m, res')}
    /\ UNCHANGED <<mounted, contents, clientReviews, isAdmin, clientAdminKey,
                   showAdminLogin, sent, alert>>

\* a handler reads its response and goes on without a further call
Resume(m) ==
    /\ Idle
    /\ m.dir = "response"
    /\ net' = net \ {m}
    /\ UNCHANGED <<server, mounted, isAdmin, clientAdminKey, showAdminLogin, sent>>

\* a handler reads its response and goes on to call fetchContent or fetchReviews
ResumeAndFetch(m, op, path) ==
    /\ Idle
    /\ m.dir = "response"
    /\ net' = (net \ {m}) \cup {Call(sent + 1, op, [method |-> "GET", path |-> path])}
    /\ sent' = sent + 1
    /\ UNCHANGED <<server, mounted, contents, clientReviews, isAdmin, clientAdminKey,
                   showAdminLogin>>

\* fetchContent after its await: setContents(data), or the catch when the body
\* is no JSON
fetchContent(m) ==
    /\ m.op = "fetchContent"
    /\ Resume(m)
    /\ contents' = IF ParsesAsJson(m.res) THEN m.res.body.rows ELSE contents
    /\ alert' = NoAlert
    /\ UNCHANGED clientReviews

\* fetchReviews after its await
fetchReviews(m) ==
    /\ m.op = "fetchReviews"
    /\ Resume(m)
    /\ clientReviews' = IF ParsesAsJson(m.res) THEN m.res.body.rows ELSE clientReviews
    /\ alert' = NoAlert
    /\ UNCHANGED contents

\* handleUpload after its await
handleUploadResumed(m) ==
    /\ m.op = "handleUpload"
    /\ IF Ok(m.res)
       THEN /\ ResumeAndFetch(m, "fetchContent", "/api/content")
            /\ alert' = "Content uploaded successfully!"
       ELSE /\ Resume(m)
            /\ alert' = "Upload failed. Check your admin key."
            /\ UNCHANGED <<contents, clientReviews>>

\* handleDelete after its await; the alert follows await res.json(), which
\* throws when the body is no JSON
handleDeleteResumed(m) ==
    /\ m.op = "handleDelete"
    /\ IF Ok(m.res)
       THEN /\ ResumeAndFetch(m, "fetchContent", "/api/content")
            /\ alert' = NoAlert
       ELSE /\ Resume(m)
            /\ alert' = IF ParsesAsJson(m.res)
                        THEN "Delete failed: " \o m.res.body.error
                        ELSE NoAlert
            /\ UNCHANGED <<contents, clientReviews>>

\* handleDeleteReview after its await
handleDeleteReviewResumed(m) ==
    /\ m.op = "handleDeleteReview"
    /\ IF Ok(m.res)
       THEN /\ ResumeAndFetch(m, "fetchReviews", "/api/reviews")
            /\ alert' = NoAlert
       ELSE /\ Resume(m)
            /\ alert' = "Failed to delete review."
            /\ UNCHANGED <<contents, clientReviews>>

\* handleReviewSubmit after its await: if (res.ok) { ... } with no else
handleReviewSubmitResumed(m) ==
    /\ m.op = "handleReviewSubmit"
    /\ IF Ok(m.res)
       THEN /\ ResumeAndFetch(m, "fetchReviews", "/api/reviews")
            /\ alert' = "Thank you for your review!"
       ELSE /\ Resume(m)
            /\ alert' = NoAlert
            /\ UNCHANGED <<contents, clientReviews>>

AnySetAdminKey == \E k \in TypedKeys : SetAdminKey(k)

AnyHandleDelete == \E id \in 1..MaxInserts : handleDelete(id)

AnyHandleDeleteReview == \E id \in 1..MaxInserts : handleDeleteReview(id)

AnyServe == \E m \in net : Serve(m)

AnyServeThrows == \E m \in net : ServeThrows(m)

AnyResume ==
    \E m \in net :
        \/ fetchContent(m)
        \/ fetchReviews(m)
        \/ handleUploadResumed(m)
        \/ handleDeleteResumed(m)
        \/ handleDeleteReviewResumed(m)
        \/ handleReviewSubmitResumed(m)

\* App as the only client of the server
NextApp ==
    \/ Mount
    \/ ToggleAdminLogin
    \/ AnySetAdminKey
    \/ handleAdminLogin
    \/ handleUpload
    \/ AnyHandleDelete
    \/ AnyHandleDeleteReview
    \/ handleReviewSubmit
    \/ AnyServe
    \/ AnyResume
    \/ Dismiss

SpecApp == Init /\ [][NextApp]_vars

NextAppWithFaults == NextApp \/ AnyServeThrows

SpecAppWithFaults == Init /\ [][NextAppWithFaults]_vars

----------------------------------------------------------------------------
(* Claims about App *)

\* the handlers that create or delete
Mutating == {"handleUpload", "handleDelete", "handleDeleteReview", "handleReviewSubmit"}

\* the admin key a call of handleUpload or handleDelete carries
AttachedKey(m) ==
    IF m.op = "handleUpload" THEN m.req.body.adminKey ELSE m.req.xAdminKey

\* the calls a step makes
CallsMade == {m \in net' \ net : m.dir = "request"}

\* C13: whenever a handler that creates or deletes reads a response that is not
\* 2xx, an alert box is on the screen when the handler is done.
C13_FailedMutationsAlerted ==
    [][\A m \in net :
           (m.dir = "response" /\ m.op \in Mutating /\ ~Ok(m.res) /\ m \notin net')
               => alert' # NoAlert]_vars

\* C15 as stated: isAdmin turns true only when the login form is submitted with
\* the key 'jaxelricweb', never turns false again, and every call handleUpload
\* or handleDelete makes carries the key 'jaxelricweb'.
C15_AdminKeyStaysUnlockingKey ==
    [][/\ (~isAdmin /\ isAdmin')
            => showAdminLogin /\ clientAdminKey = Str("jaxelricweb")
       /\ isAdmin => isAdmin'
       /\ \A m \in CallsMade :
             m.op \in {"handleUpload", "handleDelete"}
                 => AttachedKey(m) = Str("jaxelricweb")]_vars

\* C15: isAdmin turns true only when the login form is submitted with the key
\* 'jaxelricweb' and never turns false again; handleUpload and handleDelete run
\* only while isAdmin and attach the value the key field holds at the call.
C15_AdminUnlockAndAttachedKey ==
    [][/\ (~isAdmin /\ isAdmin')
            => showAdminLogin /\ clientAdminKey = Str("jaxelricweb")
       /\ isAdmin => isAdmin'
       /\ \A m \in CallsMade :
             m.op \in {"handleUpload", "handleDelete"}
                 => isAdmin /\ AttachedKey(m) = clientAdminKey]_vars

\* C15 happens: the dashboard is unlocked and a call of handleUpload in flight
\* carries a key typed after the unlock
C15_Witness ==
    /\ isAdmin
    /\ \E m \in net : /\ m.dir = "request"
                      /\ m.op = "handleUpload"
                      /\ AttachedKey(m) = Str("s3cret")

\* C16: once no call of App is in flight, the Works it displays are the rows of
\* table content.
C16_DisplayedWorksAreCurrent ==
    (mounted /\ net = {})
        => Shown(contents) = content /\ Len(contents) = Cardinality(content)

====
